---- MODULE Spec2Model ----
(***************************************************************************)
(* Visual Design Mentor backend.                                           *)
(*                                                                         *)
(*   routes/learn_mode.py  call_groq_vision_with_fallback, verify_progress *)
(*                         call_groq_text, generate_lesson_plan            *)
(*   routes/figma.py       upload_for_figma, retrieve_for_figma            *)
(*                                                                         *)
(* The handlers are coroutines on one event loop: a handler runs           *)
(* uninterrupted from one await to the next, so one action of this module  *)
(* is the code between two consecutive awaits of one handler.              *)
(***************************************************************************)
EXTENDS Integers, Sequences, FiniteSets, TLC

\* ------------------------------------------------------------------ bounds

\* Length of the static candidate list (the repository's list has five
\* entries; the attempt order only depends on positions in the list).
NumCandidates == 3

\* Size of the space the 6-character transfer identifiers are drawn from.
NumIds == 2

\* Number of upload_for_figma calls in one run; the clock runs long enough for
\* each of them to come more than TTL after the one before.
MaxUploads == 3

\* Largest number of steps in an upstream lesson plan.
MaxSteps == 3

\* Largest estimated_time_minutes an upstream lesson plan carries.
MaxMinutes == 3

\* ------------------------------------------------- learn_mode.py: constants

\* CURRENT_VISION_MODEL = None
None == 0

\* CANDIDATE_VISION_MODELS: identifier k is the k-th entry of the list.
CANDIDATE_VISION_MODELS == [k \in 1..NumCandidates |-> k]

\* The verify_progress requests that can be in flight at once: two are what a
\* race on the cached model takes.
Invocations == {1, 2}

\* response.status_code values the upstream is modelled to answer with.
Statuses == {200, 400, 401, 404, 429, 500}

\* ---------------------------------------------------- upstream responses

\* The text content a model returns (choices[0].message.content), described
\* by what verify_progress can make of it:
\*   form       "object"       json.loads succeeds and yields a JSON object
\*              "nonobject"    json.loads succeeds and yields a list/number/...
\*              "embedded"     json.loads fails; the first non-greedy {...}
\*                             match is itself a JSON object
\*              "embedded_bad" json.loads fails; the {...} match is not JSON
\*              "nobrace"      json.loads fails; no {...} match at all
\*   completed  the object's "completed" member: absent, true, false, a
\*              non-boolean the response model coerces to True ("coercible":
\*              1, "true", "yes"), or a value it rejects ("invalid": null, [])
\*   rest       "feedback"/"confidence": given and valid, absent, or rejected
ObjectForms == {"object", "embedded"}

CompletedValues == {"absent", "true", "false", "coercible", "invalid"}

RestValues == {"valid", "absent", "invalid"}

Reply(f, c, r) == [form |-> f, completed |-> c, rest |-> r]

Replies ==
    {Reply(f, c, r) : f \in ObjectForms, c \in CompletedValues, r \in RestValues}
    \cup {Reply(f, "absent", "absent") : f \in {"nonobject", "embedded_bad", "nobrace"}}

\* One reply per branch of the cache logic: the invoker never looks into the text.
CoarseReplies == {Reply("object", "true", "valid")}

NoText == Reply("none", "absent", "absent")

\* What one `await client.post(...)` produces: an HTTP response (status, whether
\* response.text carries a decommission marker, whether a 200 body decodes to
\* choices[0].message.content, and that content) or a transport exception.
HttpResponse(s, mk, dec, t) ==
    [kind |-> "http", status |-> s, marker |-> mk, decodable |-> dec, text |-> t]

TransportError ==
    [kind |-> "transport", status |-> 0, marker |-> FALSE, decodable |-> FALSE, text |-> NoText]

ResponsesWith(statuses, texts) ==
    {HttpResponse(200, FALSE, TRUE, t) : t \in texts}
    \cup {HttpResponse(200, FALSE, FALSE, NoText)}
    \cup {HttpResponse(s, mk, FALSE, NoText) : s \in statuses \ {200}, mk \in BOOLEAN}
    \cup {TransportError}

Responses == ResponsesWith(Statuses, Replies)

\* One answer per branch of lines 373-400.
CoarseResponses == ResponsesWith({200, 404, 500}, CoarseReplies)

\* ------------------------------------------------------------------ state

VARIABLES
    GROQ_API_KEY,          \* config: TRUE iff the credential is configured
    CURRENT_VISION_MODEL,  \* the module global (None or a model identifier)
    pc,                    \* per request: "idle", "awaiting" (at client.post), "done"
    cached,                \* per request: CURRENT_VISION_MODEL as read at lines 333-339
    models_to_try,         \* per request: the local list built at lines 332-339
    attempt,               \* per request: position of the loop in models_to_try
    last_error,            \* per request: the local last_error
    log,                   \* per request: the answers received so far, in order
    outcome,               \* per request: what call_groq_vision_with_fallback did
    response,              \* per request: what verify_progress returned
    last_ok,               \* the model of the HTTP 200 received most recently, by any request
    design_store,          \* figma.py: the module global dict
    now,                   \* figma.py: the clock read by time.time()
    last_put,              \* figma.py: the latest upload_for_figma call
    spaced,                \* figma.py: every two consecutive uploads so far were > TTL apart
    uploads,               \* figma.py: number of upload_for_figma calls so far
    issued,                \* figma.py: the transfer ids returned so far
    retrieved,             \* figma.py: the latest retrieve_for_figma call
    lesson_pc,             \* generate_lesson_plan: "idle", "awaiting" (in call_groq_text), "done"
    lesson_answer,         \* generate_lesson_plan: what the awaited client.post produced
    lesson_plan            \* generate_lesson_plan: what the handler returned or raised

visionVars ==
    <<GROQ_API_KEY, CURRENT_VISION_MODEL, pc, cached, models_to_try, attempt,
      last_error, log, outcome, response, last_ok>>

storeVars == <<design_store, now, last_put, spaced, uploads, issued, retrieved>>

lessonVars == <<lesson_pc, lesson_answer, lesson_plan>>

vars == <<visionVars, storeVars, lessonVars>>

\* ------------------------------------- call_groq_vision_with_fallback: data

\* last_error: None, f"Model {model} decommissioned." or str(e).
NoError == [reason |-> "none", model |-> None]

ModelDecommissioned(m) == [reason |-> "decommissioned", model |-> m]

ExceptionText(what) == [reason |-> what, model |-> None]

\* What the invocation did: returned a text, or raised HTTPException(status_code, detail).
NoOutcome ==
    [kind |-> "none", status_code |-> 0, msg |-> "", model |-> None,
     error_text |-> FALSE, last_error |-> NoError, text |-> NoText]

Return(t) == [NoOutcome EXCEPT !.kind = "return", !.text = t]

Raise(code, m, mdl, etext, lerr) ==
    [NoOutcome EXCEPT !.kind = "raise", !.status_code = code, !.msg = m,
                      !.model = mdl, !.error_text = etext, !.last_error = lerr]

KeyNotConfigured == Raise(500, "GROQ_API_KEY not configured", None, FALSE, NoError)

GroqApiError(m, r) == Raise(r.status, "Groq API error", m, r.marker, NoError)

AllModelsFailed(lerr) == Raise(500, "All vision models failed", None, FALSE, lerr)

\* Faulty variant of BuildAttemptOrder: lines 333-334 left out.
BuildAttemptOrderNoCacheFirst(current) == CANDIDATE_VISION_MODELS

\* Faulty variant of BuildAttemptOrder: the test of line 338 left out.
BuildAttemptOrderKeepCached(current) ==
    (IF current # None THEN <<current>> ELSE <<>>) \o CANDIDATE_VISION_MODELS

\* Lines 331-339: the cached model first, then every candidate that is not it.
BuildAttemptOrder(current) ==
    (IF current # None THEN <<current>> ELSE <<>>)
    \o SelectSeq(CANDIDATE_VISION_MODELS, LAMBDA m : m # current)

\* Faulty variant of IsModelGone: the status test of line 382 left out.
IsModelGoneAnyStatus(r) == r.marker

\* Line 382: a 400/404 whose body carries "decommissioned", "model_not_found"
\* or "does not exist".
IsModelGone(r) == r.status \in {400, 404} /\ r.marker

\* How the loop body classifies one answer (lines 371-400).
Classify(r) ==
    CASE r.kind = "transport" -> "exception"
      [] r.status = 200 /\ r.decodable -> "ok"
      [] r.status = 200 /\ ~r.decodable -> "undecodable"
      [] IsModelGone(r) -> "decommissioned"
      [] OTHER -> "error"

\* Faulty variants of CacheOnSuccess: caching the head of the static list,
\* caching a name that is not in the list (such as the one the upstream reports
\* for an alias), caching only while nothing is cached.
CacheFirstCandidate(current, model) == CANDIDATE_VISION_MODELS[1]

CacheReportedModel(current, model) == model + NumCandidates

CacheOnlyWhenEmpty(current, model) == IF current = None THEN model ELSE current

\* The model the cache is set to on an HTTP 200 from `model` (line 375).
CacheOnSuccess(current, model) == model

\* The reason recorded before `continue` (lines 384, 399).
FailureReason(model, class) ==
    CASE class = "decommissioned" -> ModelDecommissioned(model)
      [] class = "exception" -> ExceptionText("transport")
      [] OTHER -> ExceptionText("decode")

\* ------------------------------------------------------- verify_progress

\* VerifyProgressResponse, or the exception that leaves the handler.
Returned(c, f, conf) == [raised |-> "none", completed |-> c, feedback |-> f, confidence |-> conf]

Escapes(exc) == [raised |-> exc, completed |-> FALSE, feedback |-> "", confidence |-> ""]

NoResponse == [raised |-> "pending", completed |-> FALSE, feedback |-> "", confidence |-> ""]

\* Lines 452-456 with the response model of lines 45-48: the fields of the
\* parsed object, defaults for absent ones, validation of the rest.
BuildResponse(t) ==
    IF t.completed = "invalid" \/ t.rest = "invalid"
    THEN Escapes("ValidationError")
    ELSE Returned(t.completed \in {"true", "coercible"},
                  IF t.rest = "absent" THEN "Keep going!" ELSE "feedback of the reply",
                  IF t.rest = "absent" THEN "0.5" ELSE "confidence of the reply")

\* Lines 416-456: the body of the try block, given what the invocation did.
TryBody(o) ==
    CASE o.kind = "raise" -> Escapes("HTTPException")
      [] o.text.form = "object" -> BuildResponse(o.text)
      [] o.text.form = "nonobject" -> Escapes("AttributeError")
      [] o.text.form = "embedded" -> BuildResponse(o.text)
      [] o.text.form = "embedded_bad" -> Escapes("JSONDecodeError")
      [] OTHER -> Returned(FALSE, "Unable to analyze the screen (JSON parse error)", "0.0")

\* Faulty variant of verify_progress: the catch-all clause of lines 464-469 left out.
HandleOnlyHTTPException(o) ==
    LET b == TryBody(o)
    IN  IF b.raised = "HTTPException" THEN Returned(FALSE, "API Error", "0.0") ELSE b

\* Lines 458-469: the two except clauses around the try block.
verify_progress(o) ==
    LET b == TryBody(o)
    IN  CASE b.raised = "none" -> b
          [] b.raised = "HTTPException" -> Returned(FALSE, "API Error", "0.0")
          [] OTHER -> Returned(FALSE, "Vision analysis unavailable", "0.0")

\* ------------------------------------------------ learn_mode.py: actions

\* The invocation of request i ends with o; verify_progress turns it into its
\* response in the same uninterrupted run (lines 431-469).
Finish(i, o) ==
    /\ pc' = [pc EXCEPT ![i] = "done"]
    /\ outcome' = [outcome EXCEPT ![i] = o]
    /\ response' = [response EXCEPT ![i] = verify_progress(o)]

\* verify_progress is called and runs to the first client.post (lines 416-371),
\* or to the end when the credential is missing (lines 321-325).
Call(i) ==
    /\ pc[i] \in {"idle", "done"}
    /\ log' = [log EXCEPT ![i] = <<>>]
    /\ last_error' = [last_error EXCEPT ![i] = NoError]
    /\ IF ~GROQ_API_KEY
       THEN /\ Finish(i, KeyNotConfigured)
            /\ cached' = [cached EXCEPT ![i] = None]
            /\ models_to_try' = [models_to_try EXCEPT ![i] = <<>>]
            /\ attempt' = [attempt EXCEPT ![i] = 0]
       ELSE /\ cached' = [cached EXCEPT ![i] = CURRENT_VISION_MODEL]
            /\ models_to_try' =
                   [models_to_try EXCEPT ![i] = BuildAttemptOrder(CURRENT_VISION_MODEL)]
            /\ attempt' = [attempt EXCEPT ![i] = 1]
            /\ pc' = [pc EXCEPT ![i] = "awaiting"]
            /\ outcome' = [outcome EXCEPT ![i] = NoOutcome]
            /\ response' = [response EXCEPT ![i] = NoResponse]
    /\ UNCHANGED <<GROQ_API_KEY, CURRENT_VISION_MODEL, last_ok, storeVars, lessonVars>>

\* client.post of request i completes with r; the loop runs to the next
\* client.post or to the end of the handler (lines 371-406, 437-469).
Receive(i, r) ==
    /\ pc[i] = "awaiting"
    /\ LET model == models_to_try[i][attempt[i]]
           class == Classify(r)
           reason == FailureReason(model, class)
       IN  /\ log' = [log EXCEPT ![i] = Append(@, r)]
           /\ CURRENT_VISION_MODEL' =
                  IF r.kind = "http" /\ r.status = 200
                  THEN CacheOnSuccess(CURRENT_VISION_MODEL, model)
                  ELSE CURRENT_VISION_MODEL
           /\ last_ok' = IF r.kind = "http" /\ r.status = 200 THEN model ELSE last_ok
           /\ CASE class = "ok" ->
                     /\ Finish(i, Return(r.text))
                     /\ UNCHANGED <<attempt, last_error>>
                [] class = "error" ->
                     /\ Finish(i, GroqApiError(model, r))
                     /\ UNCHANGED <<attempt, last_error>>
                [] OTHER ->
                     /\ last_error' = [last_error EXCEPT ![i] = reason]
                     /\ IF attempt[i] < Len(models_to_try[i])
                        THEN /\ attempt' = [attempt EXCEPT ![i] = @ + 1]
                             /\ UNCHANGED <<pc, outcome, response>>
                        ELSE /\ Finish(i, AllModelsFailed(reason))
                             /\ UNCHANGED attempt
    /\ UNCHANGED <<GROQ_API_KEY, cached, models_to_try, storeVars, lessonVars>>

\* ----------------------------------------------------------- figma.py

\* "1 hour TTL = 3600 seconds" (line 31).
TTL == 3600

TransferIds == 1..NumIds

\* FigmaLayers.layers: the layer trees html-to-figma produces, passed through as is.
LayerTrees == {[tree |-> "frame"], [tree |-> "card"]}

\* Line 41.
NotFound == [error |-> "Design not found or expired"]

\* Seconds that may pass between consecutive calls, and between the two
\* time.time() reads of one upload (lines 25 and 30).
TickSteps == {TTL, TTL + 1}

ClockSkews == {0, 1}

MaxTime == MaxUploads * (TTL + 2)

NoPut == [id |-> 0, layers |-> [tree |-> ""], time |-> 0]

NoGet == [id |-> 0, result |-> [tree |-> ""], after |-> 0]

EmptyStore == [k \in {} |-> [layers |-> [tree |-> ""], timestamp |-> 0]]

\* Lines 23-26.
Entry(layers, ts) == [layers |-> layers, timestamp |-> ts]

StorePut(store, id, entry) ==
    [k \in DOMAIN store \cup {id} |-> IF k = id THEN entry ELSE store[k]]

\* Faulty variants of Expired: the operands swapped; no TTL in the test.
ExpiredSwapped(current_time, v) == v.timestamp - current_time > TTL

ExpiredAtOnce(current_time, v) == current_time - v.timestamp >= 0

\* Line 31: current_time - v["timestamp"] > 3600.
Expired(current_time, v) == current_time - v.timestamp > TTL

\* Lines 31-33.
Evict(store, current_time) ==
    [k \in {j \in DOMAIN store : ~Expired(current_time, store[j])} |-> store[k]]

\* Faulty variant of retrieve_for_figma: ["layers"] left out at line 40.
RetrieveWholeEntry(store, id) ==
    IF id \in DOMAIN store THEN store[id] ELSE NotFound

\* Lines 38-41.
retrieve_for_figma(store, id) ==
    IF id \in DOMAIN store THEN store[id].layers ELSE NotFound

\* upload_for_figma (lines 18-35): uuid4 gives id, the request carries layers,
\* skew seconds pass between the two clock reads.
Upload(id, layers, skew) ==
    /\ uploads < MaxUploads
    /\ now + skew <= MaxTime
    /\ design_store' = Evict(StorePut(design_store, id, Entry(layers, now)), now + skew)
    /\ now' = now + skew
    /\ last_put' = [id |-> id, layers |-> layers, time |-> now]
    /\ spaced' = (spaced /\ (last_put = NoPut \/ now - last_put.time > TTL))
    /\ uploads' = uploads + 1
    /\ issued' = issued \cup {id}
    /\ UNCHANGED <<retrieved, visionVars, lessonVars>>

\* retrieve_for_figma (lines 38-41), called after `after` uploads.
Retrieve(id) ==
    /\ retrieved' = [id |-> id, result |-> retrieve_for_figma(design_store, id),
                     after |-> uploads]
    /\ UNCHANGED <<design_store, now, last_put, spaced, uploads, issued, visionVars, lessonVars>>

\* Time passes between two requests (only an upload reads the clock).
Tick(d) ==
    /\ uploads < MaxUploads
    /\ now + d <= MaxTime
    /\ now' = now + d
    /\ UNCHANGED <<design_store, last_put, spaced, uploads, issued, retrieved, visionVars,
                    lessonVars>>

\* ------------------------------------ call_groq_text, generate_lesson_plan

\* One entry of the upstream "steps" list: its id, and whether
\* LessonStep(**step) accepts it (id: int, instruction: str,
\* success_criteria: str all present and of those types).
Step(k, ok) == [id |-> k, well_typed |-> ok]

StepLists ==
    UNION {{[k \in 1..n |-> Step(k, f[k])] : f \in [1..n -> BOOLEAN]} : n \in 0..MaxSteps}

\* The upstream "estimated_time_minutes" member: absent, an integer, or a
\* value LessonPlan's `int` field rejects ("other": null, a list, a word).
Estimate(k, v) == [kind |-> k, value |-> v]

Estimates ==
    {Estimate("absent", 0), Estimate("other", 0)}
    \cup {Estimate("int", v) : v \in -1..MaxMinutes}

\* The text content the planner model returns, described by what
\* generate_lesson_plan can make of it:
\*   form       as for verify_progress, with the greedy {...} match of line 241
\*   has_steps  whether the object has a "steps" member
\*   steps      that member
\*   estimate   the "estimated_time_minutes" member
LessonReply(f, hs, st, e) == [form |-> f, has_steps |-> hs, steps |-> st, estimate |-> e]

LessonReplies ==
    {LessonReply(f, TRUE, st, e) : f \in ObjectForms, st \in StepLists, e \in Estimates}
    \cup {LessonReply(f, FALSE, <<>>, e) : f \in ObjectForms, e \in Estimates}
    \cup {LessonReply(f, FALSE, <<>>, Estimate("absent", 0)) :
              f \in {"nonobject", "embedded_bad", "nobrace"}}

LessonResponses == ResponsesWith(Statuses, LessonReplies)

NoAnswer ==
    [kind |-> "none", status |-> 0, marker |-> FALSE, decodable |-> FALSE, text |-> NoText]

\* What the handler gives its caller: nothing yet, a LessonPlan, or an
\* HTTPException with status_code and detail.
NoPlan ==
    [kind |-> "none", status_code |-> 0, detail |-> "", steps |-> <<>>,
     total_steps |-> 0, estimated_time_minutes |-> 0]

LessonPlan(st, total, minutes) ==
    [NoPlan EXCEPT !.kind = "plan", !.steps = st, !.total_steps = total,
                   !.estimated_time_minutes = minutes]

LessonError(code, d) == [NoPlan EXCEPT !.kind = "raise", !.status_code = code, !.detail = d]

\* except Exception (lines 266-270).
ErrorGeneratingLessonPlan == LessonError(500, "Error generating lesson plan")

\* call_groq_text after its await (lines 92-98): an HTTPException for a status
\* other than 200, an exception when client.post or the decoding of the body
\* raises, the text content otherwise.
call_groq_text(r) ==
    IF r.kind = "transport" THEN [kind |-> "exception", error |-> NoPlan, text |-> NoText]
    ELSE IF r.status # 200
         THEN [kind |-> "http_exception", error |-> LessonError(r.status, "Groq API error"),
               text |-> NoText]
    ELSE IF ~r.decodable THEN [kind |-> "exception", error |-> NoPlan, text |-> NoText]
    ELSE [kind |-> "text", error |-> NoPlan, text |-> r.text]

\* steps = lesson_data.get("steps", [])   (line 251)
Steps(lesson_data) == IF lesson_data.has_steps THEN lesson_data.steps ELSE <<>>

\* lesson_data.get("estimated_time_minutes", len(steps) * 1)   (line 261)
EstimatedTime(lesson_data, steps) ==
    IF lesson_data.estimate.kind = "absent"
    THEN Estimate("int", Len(steps) * 1)
    ELSE lesson_data.estimate

\* Lines 250-262 on the parsed object: the empty-steps check, then the
\* construction of the LessonStep and LessonPlan models, whose validation
\* errors reach `except Exception`.
BuildLessonPlan(lesson_data) ==
    LET steps == Steps(lesson_data)
        minutes == EstimatedTime(lesson_data, steps)
    IN  IF steps = <<>>
        THEN LessonError(500, "No steps generated in lesson plan")
        ELSE IF \E k \in 1..Len(steps) : ~steps[k].well_typed
             THEN ErrorGeneratingLessonPlan
        ELSE IF minutes.kind # "int"
             THEN ErrorGeneratingLessonPlan
        ELSE LessonPlan(steps, Len(steps), minutes.value)

\* generate_lesson_plan after call_groq_text (lines 229-270).
generate_lesson_plan(r) ==
    LET got == call_groq_text(r)
        form == got.text.form
    IN  CASE got.kind = "http_exception" -> got.error
          [] got.kind = "exception" -> ErrorGeneratingLessonPlan
          [] OTHER ->
               CASE form = "nobrace" ->
                        LessonError(500, "Failed to parse lesson plan response")
                 [] form \in {"embedded_bad", "nonobject"} -> ErrorGeneratingLessonPlan
                 [] OTHER -> BuildLessonPlan(got.text)

\* generate_lesson_plan up to the await in call_groq_text (lines 223-91); a
\* missing credential fails the request at once (lines 66-70).
LessonCall ==
    /\ lesson_pc \in {"idle", "done"}
    /\ lesson_answer' = NoAnswer
    /\ IF ~GROQ_API_KEY
       THEN /\ lesson_pc' = "done"
            /\ lesson_plan' = LessonError(500, "GROQ_API_KEY not configured")
       ELSE /\ lesson_pc' = "awaiting"
            /\ lesson_plan' = NoPlan
    /\ UNCHANGED <<visionVars, storeVars>>

\* The awaited client.post completes with r; the handler runs to its end.
LessonReceive(r) ==
    /\ lesson_pc = "awaiting"
    /\ lesson_pc' = "done"
    /\ lesson_answer' = r
    /\ lesson_plan' = generate_lesson_plan(r)
    /\ UNCHANGED <<visionVars, storeVars>>

\* ------------------------------------------------------- specifications

Init ==
    /\ GROQ_API_KEY \in BOOLEAN
    /\ CURRENT_VISION_MODEL = None
    /\ pc = [i \in Invocations |-> "idle"]
    /\ cached = [i \in Invocations |-> None]
    /\ models_to_try = [i \in Invocations |-> <<>>]
    /\ attempt = [i \in Invocations |-> 0]
    /\ last_error = [i \in Invocations |-> NoError]
    /\ log = [i \in Invocations |-> <<>>]
    /\ outcome = [i \in Invocations |-> NoOutcome]
    /\ response = [i \in Invocations |-> NoResponse]
    /\ last_ok = None
    /\ design_store = EmptyStore
    /\ now = 0
    /\ last_put = NoPut
    /\ spaced = TRUE
    /\ uploads = 0
    /\ issued = {}
    /\ retrieved = NoGet
    /\ lesson_pc = "idle"
    /\ lesson_answer = NoAnswer
    /\ lesson_plan = NoPlan

\* One verify_progress request at a time, any upstream answers.
Next ==
    \/ Call(1)
    \/ \E r \in Responses : Receive(1, r)

Spec == Init /\ [][Next]_vars

\* Requests interleaving at their client.post awaits.
NextConcurrent ==
    \/ \E i \in Invocations : Call(i)
    \/ \E i \in Invocations, r \in CoarseResponses : Receive(i, r)

SpecConcurrent == Init /\ [][NextConcurrent]_vars

\* The transfer store.
NextStore ==
    \/ \E id \in TransferIds, layers \in LayerTrees, skew \in ClockSkews : Upload(id, layers, skew)
    \/ \E id \in TransferIds : Retrieve(id)
    \/ \E d \in TickSteps : Tick(d)

\* The store does not depend on the credential.
InitStore == Init /\ GROQ_API_KEY = TRUE

SpecStore == InitStore /\ [][NextStore]_vars

\* One generate_lesson_plan request at a time, any upstream answers.
NextLesson ==
    \/ LessonCall
    \/ \E r \in LessonResponses : LessonReceive(r)

SpecLesson == Init /\ [][NextLesson]_vars

\* ----------------------------------------------------------- properties

ModelA == CANDIDATE_VISION_MODELS[1]

ModelB == CANDIDATE_VISION_MODELS[2]

ModelC == CANDIDATE_VISION_MODELS[3]

\* The models request i has had an answer from, in the order it asked them.
Requested(i) == SubSeq(models_to_try[i], 1, Len(log[i]))

LastAnswer(i) == log[i][Len(log[i])]

LastRequested(i) == models_to_try[i][Len(log[i])]

\* An HTTP 200 whose body holds a text content.
IsSuccess(r) == r.kind = "http" /\ r.status = 200 /\ r.decodable

\* A 400/404 whose body carries a decommission marker.
IsDecommissionAnswer(r) == r.kind = "http" /\ r.status \in {400, 404} /\ r.marker

\* Request i started with no cached model, the first answer it got carried a
\* decommission marker and the second was an HTTP 200 with a text content.
C1_Case(i) ==
    /\ pc[i] = "done"
    /\ cached[i] = None
    /\ Len(log[i]) = 2
    /\ IsDecommissionAnswer(log[i][1])
    /\ IsSuccess(log[i][2])

\* C1: with candidates [A, B, C] and no cached model, when A answers 400/404
\* with a decommission marker and B answers HTTP 200 (with a text content), the
\* models asked are A then B, the invocation returns B's text content,
\* CURRENT_VISION_MODEL is B afterwards, and the invocation that starts next
\* asks B first.
C1_FallbackCachesSecond ==
    [][\A i \in Invocations :
          /\ C1_Case(i)' =>
                /\ Requested(i)' = <<ModelA, ModelB>>
                /\ outcome'[i] = Return(log'[i][2].text)
                /\ CURRENT_VISION_MODEL' = ModelB
          /\ (C1_Case(i) /\ pc'[i] = "awaiting") =>
                /\ models_to_try'[i][attempt'[i]] = ModelB
                /\ attempt'[i] = 1]_vars

C1_Witness ==
    /\ C1_Case(1)
    /\ Requested(1) = <<ModelA, ModelB>>
    /\ outcome[1].kind = "return"
    /\ CURRENT_VISION_MODEL = ModelB

\* C2: an answer with an HTTP status other than 200 that is not a 400/404
\* carrying a decommission marker ends the invocation at once: it raises with
\* that status, naming the model, and no further model is asked.
C2_OtherStatusFailsAtOnce ==
    \A i \in Invocations :
        (/\ Len(log[i]) > 0
         /\ LastAnswer(i).kind = "http"
         /\ LastAnswer(i).status # 200
         /\ ~(LastAnswer(i).status \in {400, 404} /\ LastAnswer(i).marker))
        => /\ pc[i] = "done"
           /\ outcome[i].kind = "raise"
           /\ outcome[i].status_code = LastAnswer(i).status
           /\ outcome[i].msg = "Groq API error"
           /\ outcome[i].model = LastRequested(i)

C2_Witness ==
    /\ pc[1] = "done"
    /\ Len(log[1]) = 1
    /\ LastAnswer(1).status = 401
    /\ outcome[1].status_code = 401
    /\ Len(models_to_try[1]) = NumCandidates

\* Request i started with B cached, B answered with a decommission marker and
\* the last answer, an HTTP 200 with a text content, came from C.
C3_Case(i) ==
    /\ pc[i] = "done"
    /\ cached[i] = ModelB
    /\ \E k \in 1..Len(log[i]) :
           Requested(i)[k] = ModelB /\ IsDecommissionAnswer(log[i][k])
    /\ LastRequested(i) = ModelC
    /\ IsSuccess(LastAnswer(i))

\* C3 as stated: with B cached, B answering with a decommission marker and C
\* answering HTTP 200, the models asked are exactly B then C (A is not asked),
\* and CURRENT_VISION_MODEL is C afterwards.
C3_AsStated ==
    \A i \in Invocations :
        C3_Case(i) => /\ Requested(i) = <<ModelB, ModelC>>
                      /\ CURRENT_VISION_MODEL = ModelC

\* C3, amended: with B cached, B answering with a decommission marker and C
\* answering HTTP 200, the models asked are B, then A, then C: A is asked right
\* after B, and C is reached because A did not end the invocation. The
\* invocation returns C's text and CURRENT_VISION_MODEL is C afterwards.
C3_CachedThenStaticOrder ==
    \A i \in Invocations :
        C3_Case(i) => /\ Requested(i) = <<ModelB, ModelA, ModelC>>
                      /\ outcome[i] = Return(LastAnswer(i).text)
                      /\ CURRENT_VISION_MODEL = ModelC

C3_Witness == C3_Case(1) /\ Requested(1) = <<ModelB, ModelA, ModelC>>

\* Every answer request i has had is a decommission-marker 400/404 or a
\* transport-level exception.
C4_Case(i) ==
    /\ Len(log[i]) > 0
    /\ \A k \in 1..Len(log[i]) :
           IsDecommissionAnswer(log[i][k]) \/ log[i][k].kind = "transport"

\* C4: when every model asked yields a decommission-marker 400/404 or a
\* transport-level exception, each candidate is asked exactly once (the cached
\* model first, the others in the order of the static list), the invocation
\* ends after the last of them, and it raises 500 "All vision models failed"
\* with the reason recorded for the last model asked.
C4_ExhaustionFailsWithLastReason ==
    \A i \in Invocations :
        C4_Case(i) =>
            LET asked == Requested(i)
                n == Len(asked)
            IN  /\ n <= NumCandidates
                /\ \A j, k \in 1..n : j # k => asked[j] # asked[k]
                /\ cached[i] # None => asked[1] = cached[i]
                /\ \A j, k \in 1..n :
                       (j < k /\ asked[j] # cached[i]) => asked[j] < asked[k]
                /\ (pc[i] = "done") = (n = NumCandidates)
                /\ pc[i] = "done" =>
                       /\ {asked[k] : k \in 1..n} = {CANDIDATE_VISION_MODELS[k] : k \in 1..NumCandidates}
                       /\ outcome[i].kind = "raise"
                       /\ outcome[i].status_code = 500
                       /\ outcome[i].msg = "All vision models failed"
                       /\ outcome[i].last_error =
                              IF LastAnswer(i).kind = "transport"
                              THEN ExceptionText("transport")
                              ELSE ModelDecommissioned(asked[n])

C4_Witness ==
    /\ C4_Case(1)
    /\ pc[1] = "done"
    /\ cached[1] = ModelB
    /\ LastAnswer(1).kind = "transport"
    /\ IsDecommissionAnswer(log[1][1])

\* C5: whatever the requests, their interleaving and the upstream answers,
\* CURRENT_VISION_MODEL is None or one identifier of CANDIDATE_VISION_MODELS.
C5_CacheIsNoneOrCandidate ==
    \/ CURRENT_VISION_MODEL = None
    \/ \E k \in 1..NumCandidates : CURRENT_VISION_MODEL = CANDIDATE_VISION_MODELS[k]

C5_Witness ==
    /\ CURRENT_VISION_MODEL = ModelC
    /\ pc[1] = "done"
    /\ cached[1] = ModelB
    /\ pc[2] = "awaiting"
    /\ cached[2] = None
    /\ Len(log[2]) = 1

\* The invocation of request i ended by raising: missing credential, immediate
\* upstream HTTP error, or every model asked without success.
C6_InvocationFailed(i) == outcome[i].kind = "raise"

\* The text returned to request i yields no usable object: nothing parses
\* (neither the text as a whole nor its first {...} match), the parsed value is
\* not an object, or the response model rejects a field.
C6_ReplyUnusable(i) ==
    /\ outcome[i].kind = "return"
    /\ \/ outcome[i].text.form \in {"nonobject", "embedded_bad", "nobrace"}
       \/ outcome[i].text.completed = "invalid"
       \/ outcome[i].text.rest = "invalid"

\* The text returned to request i is not parseable JSON (json.loads raises), or
\* is not a JSON object whose fields the response model takes as of its types.
C6_ReplyNotWellTypedJson(i) ==
    /\ outcome[i].kind = "return"
    /\ \/ outcome[i].text.form # "object"
       \/ outcome[i].text.completed = "invalid"
       \/ outcome[i].text.rest = "invalid"

C7_StaleRecache(i, j) ==
    /\ i # j
    /\ pc[i] = "done"
    /\ pc[j] = "done"
    /\ outcome[i].kind = "return"
    /\ outcome[j].kind = "return"
    /\ LastRequested(i) # LastRequested(j)
    /\ cached[i] # LastRequested(j)
    /\ CURRENT_VISION_MODEL = LastRequested(i)
    /\ \E k \in 1..Len(log[j]) :
           /\ Requested(j)[k] = LastRequested(i)
           /\ IsDecommissionAnswer(log[j][k])

\* Request i receives the first HTTP 200 of its invocation in this step, and
\* so writes the cache for the first time since it read it.
C7_FirstWrite(i) ==
    /\ pc[i] = "awaiting"
    /\ Len(log'[i]) = Len(log[i]) + 1
    /\ log'[i][Len(log'[i])].status = 200
    /\ \A k \in 1..Len(log[i]) : log[i][k].status # 200

\* C7 as stated: no other request runs between a request's read of
\* CURRENT_VISION_MODEL and its own write of it, so the cache still holds what
\* the request read when it writes; and no interleaving of two requests
\* re-caches a model that one of them saw decommissioned over the model that
\* request then succeeded with.
C7_AsStated ==
    [][\A i \in Invocations :
          /\ C7_FirstWrite(i) => CURRENT_VISION_MODEL = cached[i]
          /\ \A j \in Invocations : ~C7_StaleRecache(i, j)']_vars

\* C7, amended: what is not separated by a suspension point is the receipt of
\* an HTTP 200 and the write of CURRENT_VISION_MODEL (the read that builds the
\* attempt order is separated from the write by the awaited request).
\* Consequently CURRENT_VISION_MODEL is always the model whose HTTP 200 was
\* received most recently by any request.
C7_CacheFollowsLatestSuccess == CURRENT_VISION_MODEL = last_ok

C7_Witness == C7_StaleRecache(2, 1) /\ last_ok = ModelA /\ cached[2] = None

\* C8: when every two consecutive uploads are more than 3600 seconds apart,
\* the store holds, after each upload, exactly the entry just written.
C8_SpacedPutsKeepOneEntry ==
    (spaced /\ last_put # NoPut) =>
        /\ Cardinality(DOMAIN design_store) <= 1
        /\ DOMAIN design_store = {last_put.id}
        /\ design_store[last_put.id] = Entry(last_put.layers, last_put.time)

C8_Witness ==
    /\ spaced
    /\ uploads = 3
    /\ Cardinality(issued) = 2
    /\ Cardinality(DOMAIN design_store) = 1

\* C9: a retrieve that follows an upload, with the identifier the upload
\* returned, yields the payload that was uploaded, whatever the store held before.
C9_PutThenGet ==
    /\ last_put # NoPut => retrieve_for_figma(design_store, last_put.id) = last_put.layers
    /\ (retrieved # NoGet /\ retrieved.after = uploads /\ retrieved.id = last_put.id)
           => retrieved.result = last_put.layers

C9_Witness ==
    /\ uploads = 2
    /\ Cardinality(DOMAIN design_store) = 2
    /\ retrieved.after = uploads
    /\ retrieved.id = last_put.id
    /\ retrieved.result = last_put.layers

\* C10: retrieve_for_figma returns the "Design not found or expired" object
\* exactly when the identifier is not a key of design_store, and the stored
\* payload otherwise; it leaves design_store as it was.
C10_GetIsTotalAndReadOnly ==
    [][retrieved' # retrieved =>
          /\ design_store' = design_store
          /\ (retrieved'.result = NotFound) = (retrieved'.id \notin DOMAIN design_store)
          /\ retrieved'.id \in DOMAIN design_store
                 => retrieved'.result = design_store[retrieved'.id].layers]_vars

C10_Witness ==
    /\ retrieved.id \in issued
    /\ retrieved.id \notin DOMAIN design_store
    /\ retrieved.after = uploads
    /\ retrieved.result = NotFound
    /\ design_store # EmptyStore

\* C11: every lesson plan generate_lesson_plan returns has a positive integer
\* estimated_time_minutes; when the upstream reply has N >= 1 steps and no
\* estimated_time_minutes member, the returned value is exactly N.
C11_AsStated ==
    lesson_plan.kind = "plan" =>
        /\ lesson_plan.estimated_time_minutes \in Nat \ {0}
        /\ (/\ lesson_answer.text.estimate.kind = "absent"
            /\ Len(Steps(lesson_answer.text)) >= 1)
               => lesson_plan.estimated_time_minutes = Len(Steps(lesson_answer.text))

\* C12: with one request at a time, an invocation of
\* call_groq_vision_with_fallback that ends by raising leaves
\* CURRENT_VISION_MODEL equal to the value it read at its start (cached),
\* also when an HTTP 200 answer's body cannot be decoded: once the invocation
\* has ended, CURRENT_VISION_MODEL differs from that value only if it
\* returned text.
C12_AsStated ==
    pc[1] = "done" =>
        /\ outcome[1].kind = "raise" => CURRENT_VISION_MODEL = cached[1]
        /\ CURRENT_VISION_MODEL # cached[1] => outcome[1].kind = "return"

====
